---- MODULE Spec2Model ----
(***************************************************************************)
(* Model of deform_source_mesh_to_target_mesh.py: a target mesh is loaded  *)
(* and normalized, a unit sphere mesh is deformed by a learned per-vertex  *)
(* offset during Niter SGD iterations, and the last deformed mesh is       *)
(* written back in the target's original frame.                            *)
(*                                                                         *)
(* Numbers.  A tensor element is a fraction [n, d] in lowest terms with    *)
(* d >= 0.  d = 0 encodes the IEEE special values the script can produce   *)
(* by dividing by zero: 0/0 is NaN, +-1/0 is +-Inf.  Rounding of finite    *)
(* values is not modelled, so equalities between finite values are to be   *)
(* read "up to floating-point tolerance".                                  *)
(*                                                                         *)
(* Library values.  Results of the differentiable-geometry kernels         *)
(* (sampling, the four losses) are kept symbolic: a record naming the      *)
(* function and the arguments it was applied to.  The gradient autograd    *)
(* attaches to the combined loss is an input drawn from GradSet.           *)
(***************************************************************************)
EXTENDS Integers, Sequences, FiniteSets, TLC

VARIABLES
    pc,             \* position in the script
    trg_file,       \* content of the .obj file at trg_obj
    verts,          \* `verts` (raw after load_obj, then centered and scaled)
    faces_idx,      \* `faces_idx`
    center, scale,  \* normalization parameters
    trg_mesh, src_mesh,
    deform_verts,   \* the learned offsets
    optimizer,      \* [grad: deform_verts.grad, momentum_buffer]
    loop_pos, i,    \* position of the range(Niter) iterator, loop variable
    rng,            \* number of random draws consumed by the sampler
    new_src_mesh, sample_trg, sample_src,
    loss_chamfer, loss_edge, loss_normal, loss_laplacian, loss,
    chamfer_losses, laplacian_losses, edge_losses, normal_losses,
    figures,        \* figures shown so far
    steps,          \* number of optimizer.step() calls made
    saved           \* files written by save_obj, in order

loopState == <<loop_pos, i, rng, new_src_mesh, sample_trg, sample_src>>
lossTerms == <<loss_chamfer, loss_edge, loss_normal, loss_laplacian, loss>>
lossLists == <<chamfer_losses, laplacian_losses, edge_losses, normal_losses>>
target    == <<trg_file, verts, faces_idx, center, scale, trg_mesh>>
vars == <<pc, target, src_mesh, deform_verts, optimizer, loopState,
          lossTerms, lossLists, figures, steps, saved>>

-----------------------------------------------------------------------------
(* Bounds *)
Niter == 3          \* number of optimization steps (2000 in the script)
plot_period == 2    \* plot period (250 in the script)
MaxVerts == 2       \* largest number of vertices in the target file

(* Program constants *)
ShippedNiter == 2000
ShippedPlotPeriod == 250
NumSamples == 5000
lr == 1

None == <<>>

-----------------------------------------------------------------------------
(* Tensor elements.  The arithmetic is written as functions of evaluated *)
(* arguments, with an operator of the same name in front of each. *)
Elem == [n : Int, d : Nat]

GCD[a \in Nat, b \in Nat] == IF b = 0 THEN a ELSE GCD[b, a % b]

AbsInt(a) == IF a < 0 THEN -a ELSE a
Sign(a) == IF a < 0 THEN -1 ELSE IF a > 0 THEN 1 ELSE 0

MkF[n \in Int, d \in Int] ==
    IF d = 0 THEN [n |-> Sign(n), d |-> 0]
    ELSE LET g == GCD[AbsInt(n), AbsInt(d)]
         IN  [n |-> (Sign(d) * n) \div g, d |-> AbsInt(d) \div g]
Mk(n, d) == MkF[n, d]

R(k) == [n |-> k, d |-> 1]
Zero == R(0)
One == R(1)
NaN == [n |-> 0, d |-> 0]

IsNaN(x) == x.d = 0 /\ x.n = 0
IsFinite(x) == x.d > 0

AddF[x \in Elem, y \in Elem] ==
    IF x.d = 0 /\ y.d = 0
    THEN (IF x.n = y.n THEN x ELSE NaN)
    ELSE Mk(x.n * y.d + y.n * x.d, x.d * y.d)
NegF[x \in Elem] == [n |-> -x.n, d |-> x.d]
MulF[x \in Elem, y \in Elem] == Mk(x.n * y.n, x.d * y.d)
DivF[x \in Elem, y \in Elem] == MulF[x, Mk(Sign(y.n) * y.d, AbsInt(y.n))]
AbsF[x \in Elem] == [n |-> AbsInt(x.n), d |-> x.d]
Max2F[x \in Elem, y \in Elem] ==
    IF IsNaN(x) \/ IsNaN(y) THEN NaN
    ELSE IF x.n * y.d < y.n * x.d THEN y ELSE x

Add(x, y) == AddF[x, y]
Neg(x) == NegF[x]
Sub(x, y) == AddF[x, NegF[y]]
Mul(x, y) == MulF[x, y]
Div(x, y) == DivF[x, y]
Abs(x) == AbsF[x]
Max2(x, y) == Max2F[x, y]

-----------------------------------------------------------------------------
(* (V, 3) tensors: sequences of 3-tuples *)
Axes == 1..3
VAdd(u, v) == [a \in Axes |-> Add(u[a], v[a])]
VSub(u, v) == [a \in Axes |-> Sub(u[a], v[a])]
VScale(u, s) == [a \in Axes |-> Mul(u[a], s)]
VDiv(u, s) == [a \in Axes |-> Div(u[a], s)]
VZero == [a \in Axes |-> Zero]

RECURSIVE SumAxis(_, _, _)
SumAxis(vs, a, k) == IF k = 0 THEN Zero ELSE Add(SumAxis(vs, a, k - 1), vs[k][a])

RECURSIVE MaxAbsAxis(_, _, _)
MaxAbsAxis(vs, a, k) ==
    IF k = 1 THEN Abs(vs[1][a]) ELSE Max2(MaxAbsAxis(vs, a, k - 1), Abs(vs[k][a]))

\* verts.mean(0)
Mean0(vs) == [a \in Axes |-> Div(SumAxis(vs, a, Len(vs)), R(Len(vs)))]
\* max(verts.abs().max(0)[0])
MaxAbs(vs) ==
    LET m == [a \in Axes |-> MaxAbsAxis(vs, a, Len(vs))]
    IN  Max2(Max2(m[1], m[2]), m[3])

-----------------------------------------------------------------------------
(* Meshes *)
Mesh(vs, fs) == [verts |-> vs, faces |-> fs]

\* Meshes.offset_verts: a new Meshes object whose vertices are moved by the
\* offsets; the receiver is left as it is.
offset_verts(mesh, offsets) ==
    Mesh([v \in 1..Len(mesh.verts) |-> VAdd(mesh.verts[v], offsets[v])], mesh.faces)

\* ico_sphere: a closed triangle mesh with all vertices at distance 1 from the
\* origin (here the octahedron, the coarsest such mesh with rational vertices).
ico_sphere ==
    Mesh(<< <<R(1), R(0), R(0)>>, <<R(-1), R(0), R(0)>>,
            <<R(0), R(1), R(0)>>, <<R(0), R(-1), R(0)>>,
            <<R(0), R(0), R(1)>>, <<R(0), R(0), R(-1)>> >>,
         << <<1, 3, 5>>, <<3, 2, 5>>, <<2, 4, 5>>, <<4, 1, 5>>,
            <<3, 1, 6>>, <<2, 3, 6>>, <<4, 2, 6>>, <<1, 4, 6>> >>)

\* Meshes.get_mesh_verts_faces(0) of a batch of one mesh
get_mesh_verts_faces(mesh) == <<mesh.verts, mesh.faces>>

\* Symbolic results of the library kernels
sample_points_from_meshes(mesh, num, draw) ==
    [fn |-> "sample_points_from_meshes", mesh |-> mesh.verts, num |-> num, draw |-> draw]
chamfer_distance(x, y) == [fn |-> "chamfer_distance", x |-> x, y |-> y]
mesh_edge_loss(mesh) == [fn |-> "mesh_edge_loss", mesh |-> mesh.verts]
mesh_normal_consistency(mesh) == [fn |-> "mesh_normal_consistency", mesh |-> mesh.verts]
mesh_laplacian_smoothing(mesh) ==
    [fn |-> "mesh_laplacian_smoothing", mesh |-> mesh.verts, method |-> "uniform"]

-----------------------------------------------------------------------------
(* Inputs *)
Vec(x, y, z) == <<R(x), R(y), R(z)>>
CoordVecs == {Vec(0, 0, 0), Vec(1, 1, 1), Vec(-1, 2, 0), Vec(0, -3, 2)}
VertSeqs == UNION {[1..k -> CoordVecs] : k \in 1..MaxVerts}
FacesFor(k) == IF k >= 3 THEN << <<1, 2, 3>> >> ELSE << >>
TargetFiles == {Mesh(vs, FacesFor(Len(vs))) : vs \in VertSeqs}

\* Gradients of the combined loss with respect to deform_verts
GradField(c) == [v \in 1..Len(ico_sphere.verts) |-> <<R(c), R(-c), R(c * v)>>]
GradSet == {GradField(0), GradField(1)}

-----------------------------------------------------------------------------
(* Section 1: load and normalize the target *)
\* faulty variant of Normalize: the mean is computed but not subtracted
NormalizeNoCentering(vs) ==
    LET c == Mean0(vs)
        s == MaxAbs(vs)
    IN  [center |-> c, scale |-> s, verts |-> [v \in 1..Len(vs) |-> VDiv(vs[v], s)]]

\* center = verts.mean(0); verts = verts - center;
\* scale = max(verts.abs().max(0)[0]); verts = verts / scale
Normalize(vs) ==
    LET c == Mean0(vs)
        centered == [v \in 1..Len(vs) |-> VSub(vs[v], c)]
        s == MaxAbs(centered)
    IN  [center |-> c, scale |-> s,
         verts |-> [v \in 1..Len(vs) |-> VDiv(centered[v], s)]]

\* final_verts * scale + center
InverseTransform(vs, s, c) == [v \in 1..Len(vs) |-> VAdd(VScale(vs[v], s), c)]

Init ==
    /\ pc = "load"
    /\ trg_file \in TargetFiles
    /\ verts = None /\ faces_idx = None
    /\ center = None /\ scale = None
    /\ trg_mesh = None /\ src_mesh = None
    /\ deform_verts = None /\ optimizer = None
    /\ loop_pos = 0 /\ i = -1 /\ rng = 0
    /\ new_src_mesh = None /\ sample_trg = None /\ sample_src = None
    /\ loss_chamfer = None /\ loss_edge = None /\ loss_normal = None
    /\ loss_laplacian = None /\ loss = None
    /\ chamfer_losses = None /\ laplacian_losses = None
    /\ edge_losses = None /\ normal_losses = None
    /\ figures = << >> /\ steps = 0 /\ saved = << >>

Load ==
    /\ pc = "load"
    /\ verts' = trg_file.verts
    /\ faces_idx' = trg_file.faces
    /\ pc' = "normalize"
    /\ UNCHANGED <<trg_file, center, scale, trg_mesh, src_mesh, deform_verts, optimizer,
                   loopState, lossTerms, lossLists, figures, steps, saved>>

NormalizeTarget ==
    /\ pc = "normalize"
    /\ center' = Normalize(verts).center
    /\ scale' = Normalize(verts).scale
    /\ verts' = Normalize(verts).verts
    /\ pc' = "meshes"
    /\ UNCHANGED <<trg_file, faces_idx, trg_mesh, src_mesh, deform_verts, optimizer,
                   loopState, lossTerms, lossLists, figures, steps, saved>>

MakeMeshes ==
    /\ pc = "meshes"
    /\ trg_mesh' = Mesh(verts, faces_idx)
    /\ src_mesh' = ico_sphere
    /\ pc' = "show_meshes"
    /\ UNCHANGED <<trg_file, verts, faces_idx, center, scale, deform_verts, optimizer,
                   loopState, lossTerms, lossLists, figures, steps, saved>>

\* plot_pointcloud: reads a detached copy of the vertices and shows a figure
plot_pointcloud(figs, mesh, title) == Append(figs, [title |-> title, verts |-> mesh.verts])

ShowMeshes ==
    /\ pc = "show_meshes"
    /\ figures' = plot_pointcloud(plot_pointcloud(figures, trg_mesh, <<"Target mesh">>),
                                  src_mesh, <<"Source mesh">>)
    /\ pc' = "setup"
    /\ UNCHANGED <<target, src_mesh, deform_verts, optimizer,
                   loopState, lossTerms, lossLists, steps, saved>>

-----------------------------------------------------------------------------
(* Section 3: the optimization loop *)
momentum == Mk(9, 10)
w_chamfer == One
w_edge == One
w_normal == Mk(1, 100)
w_laplacian == Mk(1, 10)

VSeqAdd(xs, ys) == [v \in 1..Len(xs) |-> VAdd(xs[v], ys[v])]
VSeqScale(xs, s) == [v \in 1..Len(xs) |-> VScale(xs[v], s)]

\* faulty variant of InitDeformVerts: a fill value other than 0.0
OnesLike(mesh) == [v \in 1..Len(mesh.verts) |-> <<One, One, One>>]
\* torch.full(src_mesh.verts_packed().shape, 0.0, requires_grad=True)
InitDeformVerts(mesh) == [v \in 1..Len(mesh.verts) |-> VZero]

\* torch.optim.SGD([deform_verts], lr=1.0, momentum=0.9)
NewSGD == [grad |-> None, momentum_buffer |-> None]

Setup ==
    /\ pc = "setup"
    /\ deform_verts' = InitDeformVerts(src_mesh)
    /\ optimizer' = NewSGD
    /\ loop_pos' = 0
    /\ chamfer_losses' = << >> /\ laplacian_losses' = << >>
    /\ edge_losses' = << >> /\ normal_losses' = << >>
    /\ pc' = "for"
    /\ UNCHANGED <<target, src_mesh, i, rng, new_src_mesh, sample_trg, sample_src,
                   lossTerms, figures, steps, saved>>

\* faulty variant of RangeHasNext: one index too many
RangeOneMore(pos) == pos <= Niter
\* range(Niter): whether the iterator yields another index
RangeHasNext(pos) == pos < Niter

ForNext ==
    /\ pc = "for"
    /\ RangeHasNext(loop_pos)
    /\ i' = loop_pos
    /\ loop_pos' = loop_pos + 1
    /\ pc' = "zero_grad"
    /\ UNCHANGED <<target, src_mesh, deform_verts, optimizer, rng, new_src_mesh,
                   sample_trg, sample_src, lossTerms, lossLists, figures, steps, saved>>

ForExit ==
    /\ pc = "for"
    /\ ~RangeHasNext(loop_pos)
    /\ pc' = "plot_losses"
    /\ UNCHANGED <<target, src_mesh, deform_verts, optimizer, loopState,
                   lossTerms, lossLists, figures, steps, saved>>

\* faulty variant of zero_grad: the gradient is left as it is
KeepGrad(opt) == opt
\* optimizer.zero_grad()
zero_grad(opt) ==
    IF opt.grad = None THEN opt
    ELSE [opt EXCEPT !.grad = [v \in 1..Len(opt.grad) |-> VZero]]

ZeroGrad ==
    /\ pc = "zero_grad"
    /\ optimizer' = zero_grad(optimizer)
    /\ pc' = "deform"
    /\ UNCHANGED <<target, src_mesh, deform_verts, loopState,
                   lossTerms, lossLists, figures, steps, saved>>

\* faulty variant of Deform: the deformed mesh is also bound to src_mesh
DeformInPlace ==
    /\ pc = "deform"
    /\ new_src_mesh' = offset_verts(src_mesh, deform_verts)
    /\ src_mesh' = new_src_mesh'
    /\ pc' = "sample"
    /\ UNCHANGED <<target, deform_verts, optimizer, loop_pos, i, rng,
                   sample_trg, sample_src, lossTerms, lossLists, figures, steps, saved>>

\* new_src_mesh = src_mesh.offset_verts(deform_verts)
Deform ==
    /\ pc = "deform"
    /\ new_src_mesh' = offset_verts(src_mesh, deform_verts)
    /\ pc' = "sample"
    /\ UNCHANGED <<target, src_mesh, deform_verts, optimizer, loop_pos, i, rng,
                   sample_trg, sample_src, lossTerms, lossLists, figures, steps, saved>>

Sample ==
    /\ pc = "sample"
    /\ sample_trg' = sample_points_from_meshes(trg_mesh, NumSamples, rng)
    /\ sample_src' = sample_points_from_meshes(new_src_mesh, NumSamples, rng + 1)
    /\ rng' = rng + 2
    /\ pc' = "losses"
    /\ UNCHANGED <<target, src_mesh, deform_verts, optimizer, loop_pos, i,
                   new_src_mesh, lossTerms, lossLists, figures, steps, saved>>

\* loss_chamfer * w_chamfer + loss_edge * w_edge + loss_normal * w_normal
\*   + loss_laplacian * w_laplacian, with the gradient autograd derives for it
WeightedSum(lc, le, ln, ll, g) ==
    [fn |-> "weighted_sum",
     terms |-> << <<lc, w_chamfer>>, <<le, w_edge>>, <<ln, w_normal>>, <<ll, w_laplacian>> >>,
     grad_fn |-> g]

Losses ==
    /\ pc = "losses"
    /\ \E g \in GradSet :
        LET lc == chamfer_distance(sample_trg, sample_src)
            le == mesh_edge_loss(new_src_mesh)
            ln == mesh_normal_consistency(new_src_mesh)
            ll == mesh_laplacian_smoothing(new_src_mesh)
        IN  /\ loss_chamfer' = lc
            /\ loss_edge' = le
            /\ loss_normal' = ln
            /\ loss_laplacian' = ll
            /\ loss' = WeightedSum(lc, le, ln, ll, g)
    /\ pc' = "append"
    /\ UNCHANGED <<target, src_mesh, deform_verts, optimizer, loopState,
                   lossLists, figures, steps, saved>>

\* faulty variant of AppendLosses: the laplacian loss is not appended
AppendAllButLaplacian(lists, lc, le, ln, ll) ==
    <<Append(lists[1], lc), lists[2], Append(lists[3], le), Append(lists[4], ln)>>
\* the four list.append calls; lists and result are <<chamfer, laplacian, edge, normal>>
AppendLosses(lists, lc, le, ln, ll) ==
    <<Append(lists[1], lc), Append(lists[2], ll), Append(lists[3], le), Append(lists[4], ln)>>

SaveLosses ==
    /\ pc = "append"
    /\ LET r == AppendLosses(lossLists, loss_chamfer, loss_edge, loss_normal,
                             loss_laplacian)
       IN  /\ chamfer_losses' = r[1]
           /\ laplacian_losses' = r[2]
           /\ edge_losses' = r[3]
           /\ normal_losses' = r[4]
    /\ pc' = "plot"
    /\ UNCHANGED <<target, src_mesh, deform_verts, optimizer, loopState,
                   lossTerms, figures, steps, saved>>

\* faulty variant of ShouldPlot: a figure in every iteration
PlotAlways(k) == TRUE
\* i % plot_period == 0
ShouldPlot(k) == k % plot_period = 0

PlotMesh ==
    /\ pc = "plot"
    /\ ShouldPlot(i)
    /\ figures' = plot_pointcloud(figures, new_src_mesh, <<"iter: %d", i>>)
    /\ pc' = "backward"
    /\ UNCHANGED <<target, src_mesh, deform_verts, optimizer, loopState,
                   lossTerms, lossLists, steps, saved>>

SkipPlot ==
    /\ pc = "plot"
    /\ ~ShouldPlot(i)
    /\ pc' = "backward"
    /\ UNCHANGED <<target, src_mesh, deform_verts, optimizer, loopState,
                   lossTerms, lossLists, figures, steps, saved>>

\* loss.backward(): the gradient is accumulated into deform_verts.grad
backward(opt, l) ==
    [opt EXCEPT !.grad = IF opt.grad = None THEN l.grad_fn ELSE VSeqAdd(opt.grad, l.grad_fn)]

Backward ==
    /\ pc = "backward"
    /\ optimizer' = backward(optimizer, loss)
    /\ pc' = "step"
    /\ UNCHANGED <<target, src_mesh, deform_verts, loopState,
                   lossTerms, lossLists, figures, steps, saved>>

\* SGD with momentum, no dampening, no weight decay
sgd_buffer(opt) ==
    IF opt.momentum_buffer = None THEN opt.grad
    ELSE VSeqAdd(VSeqScale(opt.momentum_buffer, momentum), opt.grad)
sgd_param(p, buf) == VSeqAdd(p, VSeqScale(buf, R(-lr)))

Step ==
    /\ pc = "step"
    /\ LET buf == sgd_buffer(optimizer)
       IN  /\ optimizer' = [optimizer EXCEPT !.momentum_buffer = buf]
           /\ deform_verts' = sgd_param(deform_verts, buf)
    /\ steps' = steps + 1
    /\ pc' = "for"
    /\ UNCHANGED <<target, src_mesh, loopState, lossTerms, lossLists, figures, saved>>

-----------------------------------------------------------------------------
(* Sections 4 and 5: plot the losses, save the predicted mesh *)
PlotLosses ==
    /\ pc = "plot_losses"
    /\ figures' = Append(figures, [title |-> <<"Loss vs iterations">>,
                                   lines |-> <<chamfer_losses, edge_losses,
                                               normal_losses, laplacian_losses>>])
    /\ pc' = "save"
    /\ UNCHANGED <<target, src_mesh, deform_verts, optimizer, loopState,
                   lossTerms, lossLists, steps, saved>>

Save ==
    /\ pc = "save"
    /\ LET vf == get_mesh_verts_faces(new_src_mesh)
           final_verts == InverseTransform(vf[1], scale, center)
       IN  saved' = Append(saved, [path |-> "./final_model.obj",
                                   verts |-> final_verts, faces |-> vf[2]])
    /\ pc' = "done"
    /\ UNCHANGED <<target, src_mesh, deform_verts, optimizer, loopState,
                   lossTerms, lossLists, figures, steps>>

Next ==
    \/ Load \/ NormalizeTarget \/ MakeMeshes \/ ShowMeshes \/ Setup
    \/ ForNext \/ ForExit
    \/ ZeroGrad \/ Deform \/ Sample \/ Losses \/ SaveLosses
    \/ PlotMesh \/ SkipPlot \/ Backward \/ Step
    \/ PlotLosses \/ Save

Spec == Init /\ [][Next]_vars
FairSpec == Spec /\ WF_vars(Next)

-----------------------------------------------------------------------------
(* Properties *)
Normalized == pc \notin {"load", "normalize"}
SourceCreated == pc \notin {"load", "normalize", "meshes"}
LoopSetUp == pc \notin {"load", "normalize", "meshes", "show_meshes", "setup"}
AfterDeform == pc \in {"sample", "losses", "append", "plot", "backward", "step"}
InBody == pc \in {"zero_grad", "deform"} \/ AfterDeform
AllCoincide(vs) == \A v \in 1..Len(vs) : vs[v] = vs[1]
ZeroField == InitDeformVerts(ico_sphere)
Deformed == offset_verts(src_mesh, deform_verts)
SqNorm(u) == Add(Add(Mul(u[1], u[1]), Mul(u[2], u[2])), Mul(u[3], u[3]))
AtMostOne(x) == IsFinite(x) /\ x.n <= x.d
IterFigures == SelectSeq(figures, LAMBDA f : Len(f.title) = 2)
PlotCount(n, period) == (n + period - 1) \div period

\* C1 (as claimed): the vertices written to the output file are
\* (source vertex + offset after the last, Niter-th, update) * scale + center.
C1_WrittenAfterLastUpdate ==
    pc = "done" =>
        saved[1].verts = InverseTransform(Deformed.verts, scale, center)

\* C2 (as claimed): for any input vertex set, coinciding vertices included, the
\* normalized vertices have centroid 0 and largest absolute coordinate 1.
C2_NormalizedAnyInput ==
    Normalized => Mean0(verts) = VZero /\ MaxAbs(verts) = One

\* C2 (amended): for any input vertex set whose vertices do not all coincide,
\* the normalized vertices have centroid 0 and largest absolute coordinate 1.
C2_NormalizedNonDegenerate ==
    Normalized /\ ~AllCoincide(trg_file.verts) =>
        Mean0(verts) = VZero /\ MaxAbs(verts) = One

C2_Witness ==
    pc = "meshes" /\ ~AllCoincide(trg_file.verts) /\ center # VZero

\* C3 (as claimed): every normalized vertex lies in the unit sphere,
\* x*x + y*y + z*z <= 1 (stated here for the inputs whose scale is not 0,
\* where the division is defined).
C3_InUnitSphere ==
    Normalized /\ scale # Zero =>
        \A v \in 1..Len(verts) : AtMostOne(SqNorm(verts[v]))

\* C4 (as claimed): for any input vertex set, normalized vertex * scale + center
\* gives back the original coordinates of every vertex.
C4_RoundTrip ==
    Normalized => InverseTransform(verts, scale, center) = trg_file.verts

\* C5: the offsets are one zero 3-vector per source vertex until the first
\* optimizer update, and the mesh deformed in iteration 0 has the vertices and
\* faces of the initial source mesh.
C5_ZeroOffsetBaseline ==
    /\ LoopSetUp /\ steps = 0 =>
          /\ Len(deform_verts) = Len(src_mesh.verts)
          /\ \A v \in 1..Len(deform_verts) : deform_verts[v] = <<Zero, Zero, Zero>>
    /\ i = 0 /\ (AfterDeform \/ pc = "for") =>
          /\ new_src_mesh.verts = ico_sphere.verts
          /\ new_src_mesh.faces = ico_sphere.faces

C5_Witness == pc = "sample" /\ i = 0 /\ steps = 0

\* C6: from its creation to the end the source mesh keeps its initial vertices
\* and faces, and the faces written to the output file are the source faces.
C6_SourceNeverMutated ==
    /\ SourceCreated => src_mesh = ico_sphere
    /\ pc = "done" => saved[1].faces = src_mesh.faces

C6_Witness == pc = "done" /\ new_src_mesh.verts # src_mesh.verts

\* C7: the loop ends after exactly Niter iterations whatever gradients and
\* losses occur: the offsets get exactly Niter updates, never more, and the
\* export is then reached and writes exactly one file.
C7_TerminatesAfterNiter ==
    /\ <>(pc = "done")
    /\ [](steps <= Niter /\ Len(saved) <= 1)
    /\ [](InBody => i < Niter)
    /\ [](pc \in {"plot_losses", "save", "done"} =>
            steps = Niter /\ loop_pos = Niter /\ i = Niter - 1)
    /\ [](pc = "done" <=> Len(saved) = 1)

C7_Witness == pc = "done" /\ steps = Niter /\ Len(saved) = 1

\* C8: within an iteration the statements run in the order zero_grad, deform,
\* sample, losses, (append, plot,) backward, step; the offsets change only in
\* the optimizer step, once per iteration; the gradient the step uses is the
\* gradient of this iteration's combined loss alone.
BodyOrder ==
    [zero_grad |-> "deform", deform |-> "sample", sample |-> "losses",
     losses |-> "append", append |-> "plot", plot |-> "backward",
     backward |-> "step", step |-> "for"]

C8_IterationOrder ==
    /\ [][InBody => pc' = BodyOrder[pc]]_vars
    /\ [][deform_verts' # deform_verts /\ LoopSetUp => pc = "step"]_vars
    /\ [][steps' = IF pc = "step" THEN steps + 1 ELSE steps]_vars
    /\ [](InBody => steps = i)
    /\ [](pc = "for" => steps = loop_pos)
    /\ [](pc = "deform" => optimizer.grad \in {None, ZeroField})
    /\ [](pc \in {"append", "plot", "backward", "step"} =>
            /\ new_src_mesh = Deformed
            /\ loss.terms[1][1] = chamfer_distance(sample_trg, sample_src)
            /\ sample_src.mesh = new_src_mesh.verts
            /\ loss.terms[2][1] = mesh_edge_loss(new_src_mesh)
            /\ loss.terms[3][1] = mesh_normal_consistency(new_src_mesh)
            /\ loss.terms[4][1] = mesh_laplacian_smoothing(new_src_mesh))
    /\ [](pc = "step" => optimizer.grad = loss.grad_fn)

C8_Witness ==
    /\ pc = "step" /\ i >= 1
    /\ loss.grad_fn # ZeroField
    /\ optimizer.momentum_buffer # ZeroField

\* C9: the four loss lists always have the same length: k at the start of
\* iteration k, k + 1 after its appends, Niter after the loop; each append adds
\* the loss term of the mesh deformed by the offsets before that iteration's
\* update; the lists only grow at the end, and appending changes nothing else.
ListLen == Len(chamfer_losses)

C9_LossHistory ==
    /\ [](LoopSetUp =>
            /\ Len(laplacian_losses) = ListLen
            /\ Len(edge_losses) = ListLen
            /\ Len(normal_losses) = ListLen
            /\ ListLen = steps + (IF pc \in {"plot", "backward", "step"} THEN 1 ELSE 0)
            /\ (pc \in {"plot_losses", "save", "done"} => ListLen = Niter))
    /\ [][LoopSetUp /\ lossLists' # lossLists =>
            /\ pc = "append" /\ steps = i /\ ListLen = i
            /\ chamfer_losses' = Append(chamfer_losses,
                   chamfer_distance(sample_points_from_meshes(trg_mesh, NumSamples, rng - 2),
                                    sample_points_from_meshes(Deformed, NumSamples, rng - 1)))
            /\ edge_losses' = Append(edge_losses, mesh_edge_loss(Deformed))
            /\ normal_losses' = Append(normal_losses, mesh_normal_consistency(Deformed))
            /\ laplacian_losses' = Append(laplacian_losses, mesh_laplacian_smoothing(Deformed))
            /\ UNCHANGED <<deform_verts, optimizer, loss, new_src_mesh, src_mesh>>]_vars
    /\ [][pc = "append" => lossLists' # lossLists]_vars

C9_Witness ==
    /\ pc = "plot" /\ i >= 1
    /\ edge_losses[i + 1] # edge_losses[i]

\* C10: a figure of the deformed mesh is drawn in exactly the iterations i with
\* i % plot_period = 0 (8 times for Niter = 2000 and plot_period = 250); it
\* shows the mesh deformed by the offsets before that iteration's update; and
\* drawing it changes nothing but the figures.
PlotsDue ==
    IF ~LoopSetUp THEN 0
    ELSE IF pc = "for" THEN PlotCount(loop_pos, plot_period)
    ELSE IF pc \in {"zero_grad", "deform", "sample", "losses", "append", "plot"}
         THEN PlotCount(i, plot_period)
    ELSE PlotCount(i + 1, plot_period)

C10_PlotEveryPeriod ==
    /\ [](/\ Len(IterFigures) = PlotsDue
          /\ \A k \in 1..Len(IterFigures) :
                IterFigures[k].title[2] = (k - 1) * plot_period)
    /\ [](pc = "done" => Len(IterFigures) = PlotCount(Niter, plot_period))
    /\ [](PlotCount(ShippedNiter, ShippedPlotPeriod) = 8)
    /\ [][pc = "plot" =>
            /\ pc' = "backward"
            /\ UNCHANGED <<target, src_mesh, deform_verts, optimizer, loopState,
                           lossTerms, lossLists, steps, saved>>
            /\ \/ UNCHANGED figures
               \/ /\ steps = i
                  /\ figures' = Append(figures, [title |-> <<"iter: %d", i>>,
                                                 verts |-> Deformed.verts])]_vars

C10_Witness == pc = "done" /\ Len(IterFigures) >= 2

====
